---- MODULE Spec2Model ----
(***************************************************************************)
(* Sync-and-approval engine of the point-of-sale backend (posapp).         *)
(*                                                                         *)
(* The database is the state: the products table (keyed by business and    *)
(* local id), the sales table (keyed by uuid, the primary key) and the     *)
(* sale_items table (rows of a sale in insertion order).  No view opens a  *)
(* transaction, so every Model.save() is committed on its own.             *)
(*                                                                         *)
(* Spec          : the users of business 1, one request at a time, every   *)
(*                 handler runs to completion.                             *)
(* SpecTenants   : the same requests sent by the users of both businesses. *)
(* SpecAmounts   : sale pushes whose total need not match their lines.     *)
(* SpecLifecycle : approval, deletion and reactivation of pushed sales.    *)
(* SpecConc      : requests of business 1 run concurrently, one database   *)
(*                 statement per step.                                     *)
(* SpecRace      : two sale pushes of business 1 run concurrently.         *)
(* SpecProducts  : product pushes of any shape, and sales between them.    *)
(* SpecIds       : concurrent saves of products that have no local id.     *)
(* SpecQueries   : the read-only requests, after sales have been written.  *)
(* SpecSales     : the sale requests of business 1, without any request    *)
(*                 that writes a product directly.                         *)
(***************************************************************************)
EXTENDS Integers, Sequences, FiniteSets, TLC

\* ---------------------------------------------------------------- bounds
MaxOps == 3        \* requests served in one behaviour
MaxStock == 2      \* largest stock a device pushes for a product
MaxAmountPushes == 2   \* pushes with an arbitrary total in one behaviour
MaxLifecycleOps == 4   \* requests served to sales that have been pushed
MaxTenantOps == 2      \* requests served when both businesses send them
MaxLocalId == 4        \* largest local id a product of a business gets
MaxProductOps == 2     \* requests served while the catalogue is pushed or deleted from
MaxSaves == 3          \* requests of a behaviour that saves products without local id
MaxQueryOps == 3       \* writing requests served before a query is answered

\* ---------------------------------------------------------------- domains
Businesses == {1, 2}
Actors == {"a1", "w1", "a2"}
Users == {"a1", "w1"}
UuidSeq == <<"u1", "u2">>
Uuids == {UuidSeq[i] : i \in 1..Len(UuidSeq)}
LocalIds == {1, 2}
Quantities == {1, 2}
ItemCounts == {1, 2}

\* UserProfile: every actor has exactly one business and one role
BusinessOf(a) == IF a = "a2" THEN 2 ELSE 1
RoleOf(a) == IF a = "w1" THEN "worker" ELSE "admin"

\* a permission that lets every role pass
IsAnyRole(a) == RoleOf(a) \in {"admin", "worker"}

\* IsAdmin.has_permission
IsAdmin(a) == RoleOf(a) = "admin"

\* timestamps are ticks of a clock; Epoch is the tick at which the products
\* of the initial state were saved
Epoch == 1
\* the name of the products of the initial state
InitName == "n0"

\* Product rows; the model keeps the columns the stock rules read or write,
\* the name and updated_at
NoProduct == [exists |-> FALSE, stock |-> 0, active |-> FALSE, price |-> 0,
              name |-> "", updated_at |-> 0]
Product(s, act, p) == [exists |-> TRUE, stock |-> s, active |-> act, price |-> p,
                       name |-> InitName, updated_at |-> Epoch]

\* Sale rows
NoSale == [exists |-> FALSE, business |-> 0, pending_approval |-> FALSE,
           active |-> FALSE, created_by |-> "none", created_at |-> 0,
           total |-> 0]

\* SaleItem rows: product is the local id of a product of the sale's business
SaleItem(l, q, p) == [product |-> l, quantity |-> q, total_price |-> p]

\* the local ids a product row can have: the column is a positive integer
AllIds == 1..MaxLocalId
ProductKeys == Businesses \X AllIds
\* products the devices have pushed before the first request of a behaviour
InitKeys == {<<1, 1>>, <<1, 2>>, <<2, 1>>}
InitStock == (<<1, 1>> :> 2) @@ (<<1, 2>> :> 1) @@ (<<2, 1>> :> 1)
\* prices in cents: the price of the products pushed before, and the
\* prices a device sends
InitPrice == 300
Prices == {0, 500}

\* request slots: each serves at most one request of a concurrent behaviour
Slots == {1, 2}

\* a request in flight: the handler's position (pc) and its local variables.
\* L/rows are the sales it addresses and the rows it will save, its/i the
\* items it iterates, prow the product object it has loaded
Idle == [op |-> "idle", actor |-> "none", L |-> <<>>, rows |-> <<>>, j |-> 0,
         its |-> <<>>, i |-> 0, prow |-> NoProduct, data |-> <<>>, lid |-> 0,
         total |-> 0, pc |-> "idle", status |-> 0]

VARIABLES
    product,    \* products table: ProductKeys -> row
    sale,       \* sales table: Uuids -> row
    items,      \* sale_items table: Uuids -> sequence of rows, by id
    decs,       \* history: decs[u][l] = stock decrements written for item (u, l)
    incs,       \* history: incs[u][l] = stock increments written for item (u, l)
    last,       \* the request served last and its response
    nops,       \* requests served so far
    req         \* requests in flight: Slots -> position and local variables

vars == <<product, sale, items, decs, incs, last, nops, req>>

\* the database as one value, so that handlers are functions of it
\* now is the server's clock, timezone.now(): one tick per request served
DB == [product |-> product, sale |-> sale, items |-> items, decs |-> decs,
       incs |-> incs, now |-> Epoch + nops]

\* ------------------------------------------------------------ Stock Ledger
\* FK of an item: the product row of the sale's business with that local id
ProductOf(d, u, it) == <<d.sale[u].business, it.product>>

\* a decrement that lets every stock pass
EnoughAlways(row, q) == TRUE

\* the guard "product.stock >= item.quantity" of every decrement
Enough(row, q) == row.stock >= q

HasStock(d, u, it) == Enough(d.product[ProductOf(d, u, it)], it.quantity)

\* a decrement by one unit, whatever the quantity
DecrementOne(d, u, it) ==
    [d EXCEPT !.product[ProductOf(d, u, it)].stock = @ - 1,
              !.product[ProductOf(d, u, it)].updated_at = d.now,
              !.decs[u][it.product] = @ + 1]

\* "product.stock -= item.quantity; product.save()"
Decrement(d, u, it) ==
    [d EXCEPT !.product[ProductOf(d, u, it)].stock = @ - it.quantity,
              !.product[ProductOf(d, u, it)].updated_at = d.now,
              !.decs[u][it.product] = @ + 1]

\* a restore that gives the quantity back twice
IncrementTwice(d, u, it) ==
    [d EXCEPT !.product[ProductOf(d, u, it)].stock = @ + 2 * it.quantity,
              !.incs[u][it.product] = @ + 1]

\* "product.stock += item.quantity; product.save()"
Increment(d, u, it) ==
    [d EXCEPT !.product[ProductOf(d, u, it)].stock = @ + it.quantity,
              !.product[ProductOf(d, u, it)].updated_at = d.now,
              !.incs[u][it.product] = @ + 1]

\* ------------------------------------------------------------ Approval Engine
\* a lookup that forgets pending_approval=True
IsPendingAnyApproval(d, b, u) ==
    /\ d.sale[u].exists
    /\ d.sale[u].business = b
    /\ d.sale[u].active

\* Sale.objects.get(uuid, business, pending_approval=True, active=True)
IsPending(d, b, u) ==
    /\ d.sale[u].exists
    /\ d.sale[u].business = b
    /\ d.sale[u].pending_approval
    /\ d.sale[u].active

\* the item loop of an approval: stops at the first item without stock and
\* returns; what it saved before stays saved
RECURSIVE ApproveItems(_, _, _)
ApproveItems(d, u, i) ==
    IF i > Len(d.items[u]) THEN [db |-> d, ok |-> TRUE]
    ELSE LET it == d.items[u][i] IN
         IF HasStock(d, u, it) THEN ApproveItems(Decrement(d, u, it), u, i + 1)
         ELSE [db |-> d, ok |-> FALSE]

\* ApproveSaleView.post
ApproveSale(d, a, u) ==
    IF ~IsAdmin(a) THEN [db |-> d, status |-> 403]
    ELSE IF ~IsPending(d, BusinessOf(a), u) THEN [db |-> d, status |-> 404]
    ELSE LET r == ApproveItems(d, u, 1) IN
         IF r.ok
         THEN [db |-> [r.db EXCEPT !.sale[u].pending_approval = FALSE], status |-> 200]
         ELSE [db |-> r.db, status |-> 400]

\* the pending, active sales of a business
PendingOf(d, b) == {u \in Uuids : IsPending(d, b, u)}

\* Sale.Meta.ordering = ['-created_at']: a queryset lists the newest sale first
RECURSIVE NewestFirst(_, _)
NewestFirst(d, S) ==
    IF S = {} THEN <<>>
    ELSE LET u == CHOOSE x \in S : \A y \in S : d.sale[y].created_at <= d.sale[x].created_at
         IN <<u>> \o NewestFirst(d, S \ {u})

\* the first loop of ApproveAllPendingView.post
RECURSIVE ApproveSales(_, _, _)
ApproveSales(d, L, j) ==
    IF j > Len(L) THEN [db |-> d, ok |-> TRUE]
    ELSE LET r == ApproveItems(d, L[j], 1) IN
         IF r.ok THEN ApproveSales(r.db, L, j + 1) ELSE r

\* a bulk approval that marks each sale approved as soon as its items passed
RECURSIVE ApproveSalesOneByOne(_, _, _)
ApproveSalesOneByOne(d, L, j) ==
    IF j > Len(L) THEN [db |-> d, ok |-> TRUE]
    ELSE LET r == ApproveItems(d, L[j], 1) IN
         IF r.ok
         THEN ApproveSalesOneByOne([r.db EXCEPT !.sale[L[j]].pending_approval = FALSE],
                                   L, j + 1)
         ELSE r

ApproveAllOneByOne(d, a) ==
    IF ~IsAdmin(a) THEN [db |-> d, status |-> 403, approved_count |-> 0]
    ELSE LET L == NewestFirst(d, PendingOf(d, BusinessOf(a)))
             r == ApproveSalesOneByOne(d, L, 1)
         IN [db |-> r.db, status |-> IF r.ok THEN 200 ELSE 400,
             approved_count |-> IF r.ok THEN Len(L) ELSE 0]

\* ApproveAllPendingView.post; approved_count is part of the 200 response only
ApproveAll(d, a) ==
    IF ~IsAdmin(a) THEN [db |-> d, status |-> 403, approved_count |-> 0]
    ELSE LET L == NewestFirst(d, PendingOf(d, BusinessOf(a)))
             r == ApproveSales(d, L, 1)
         IN IF r.ok
            THEN [db |-> [r.db EXCEPT !.sale = [u \in Uuids |->
                              IF \E j \in 1..Len(L) : L[j] = u
                              THEN [r.db.sale[u] EXCEPT !.pending_approval = FALSE]
                              ELSE r.db.sale[u]]],
                  status |-> 200, approved_count |-> Len(L)]
            ELSE [db |-> r.db, status |-> 400, approved_count |-> 0]

\* a rejection that also gives the first line's quantity back to its product
RejectSaleRestoring(d, a, u) ==
    IF ~IsAdmin(a) THEN [db |-> d, status |-> 403]
    ELSE IF ~IsPending(d, BusinessOf(a), u) THEN [db |-> d, status |-> 404]
    ELSE [db |-> [(IF Len(d.items[u]) > 0 THEN Increment(d, u, d.items[u][1]) ELSE d)
                     EXCEPT !.sale[u].active = FALSE],
          status |-> 204]

\* RejectSaleView.post
RejectSale(d, a, u) ==
    IF ~IsAdmin(a) THEN [db |-> d, status |-> 403]
    ELSE IF ~IsPending(d, BusinessOf(a), u) THEN [db |-> d, status |-> 404]
    ELSE [db |-> [d EXCEPT !.sale[u].active = FALSE], status |-> 204]

\* RejectAllPendingView.post
RejectAll(d, a) ==
    IF ~IsAdmin(a) THEN [db |-> d, status |-> 403]
    ELSE [db |-> [d EXCEPT !.sale = [u \in Uuids |->
                      IF IsPending(d, BusinessOf(a), u)
                      THEN [d.sale[u] EXCEPT !.active = FALSE]
                      ELSE d.sale[u]]],
          status |-> 200]

\* a reactivation that subtracts the first line's quantity again
ReactivateResubtracting(d, a, u) ==
    IF ~IsAdmin(a) THEN [db |-> d, status |-> 403]
    ELSE IF ~(d.sale[u].exists /\ d.sale[u].business = BusinessOf(a))
         THEN [db |-> d, status |-> 404]
    ELSE IF d.sale[u].active THEN [db |-> d, status |-> 200]
    ELSE [db |-> [d EXCEPT !.sale[u].active = TRUE,
                           !.product[<<d.sale[u].business, d.items[u][1].product>>].stock =
                               @ - d.items[u][1].quantity],
          status |-> 200]

\* SaleViewSet.reactivate
Reactivate(d, a, u) ==
    IF ~IsAdmin(a) THEN [db |-> d, status |-> 403]
    ELSE IF ~(d.sale[u].exists /\ d.sale[u].business = BusinessOf(a))
         THEN [db |-> d, status |-> 404]
    ELSE IF d.sale[u].active THEN [db |-> d, status |-> 200]
    ELSE [db |-> [d EXCEPT !.sale[u].active = TRUE], status |-> 200]

\* SaleViewSet.get_queryset: the sales a detail request of actor a can address
InQueryset(d, a, u, include_inactive) ==
    /\ d.sale[u].exists
    /\ d.sale[u].business = BusinessOf(a)
    /\ ~d.sale[u].pending_approval
    /\ (~(include_inactive /\ IsAdmin(a)) => d.sale[u].active)
    /\ (RoleOf(a) = "worker" => d.sale[u].created_by = a)

\* the item loop of SaleViewSet.destroy
RECURSIVE RestoreItems(_, _, _)
RestoreItems(d, u, i) ==
    IF i > Len(d.items[u]) THEN d
    ELSE RestoreItems(Increment(d, u, d.items[u][i]), u, i + 1)

\* SaleViewSet.destroy
DestroySale(d, a, u, include_inactive) ==
    IF ~InQueryset(d, a, u, include_inactive) THEN [db |-> d, status |-> 404]
    ELSE [db |-> [RestoreItems(d, u, 1) EXCEPT !.sale[u].active = FALSE],
          status |-> 204]

\* ------------------------------------------------------------ Sale Reconciler
\* device input: one sale record is a uuid and its line items
\* the line items of one record: any products, duplicates included, every
\* line with the same quantity
\* amounts are in cents; every line is priced at UnitPrice a piece
UnitPrice == 100
ItemLists ==
    UNION {{[i \in 1..n |-> [product |-> ps[i], quantity |-> q,
                             total_price |-> UnitPrice * q]] :
               ps \in [1..n -> LocalIds], q \in Quantities} : n \in ItemCounts}

\* "sum(item['total_price'] for item in items_data)"
RECURSIVE SumPrices(_, _)
SumPrices(data, i) ==
    IF i > Len(data) THEN 0 ELSE data[i].total_price + SumPrices(data, i + 1)
ItemsTotal(data) == SumPrices(data, 1)

\* the total a device sends: nothing, or the sum of the lines plus an offset
TotalOffsets == {0, 1, 2}
Totals(data) == {0} \cup {ItemsTotal(data) + o : o \in TotalOffsets}
\* the amounts of a batch as the response shows them
Amounts(batch) ==
    [i \in 1..Len(batch) |->
        [total |-> batch[i].total, items_total |-> ItemsTotal(batch[i].items_data)]]
\* a record whose total is the sum of its lines
ExactRecord(u, data) == [uuid |-> u, total |-> ItemsTotal(data), items_data |-> data]

SaleRecords(U) == {ExactRecord(u, x) : u \in U, x \in ItemLists}
\* records with any total
AnyTotalRecords(U) ==
    UNION {{[uuid |-> u, total |-> t, items_data |-> x] : t \in Totals(x)} :
               u \in U, x \in ItemLists}
AnyTotalBatches(U) == {<<r>> : r \in AnyTotalRecords(U)}
SaleBatches(U) == {<<r>> : r \in SaleRecords(U)}

\* a lookup by local id alone, in whatever business
ValidProductIdAnyBusiness(d, b, l) ==
    \E b2 \in Businesses : d.product[<<b2, l>>].exists /\ d.product[<<b2, l>>].active

\* SaleItemCreateSerializer.validate_product_id
ValidProductId(d, b, l) == d.product[<<b, l>>].exists /\ d.product[<<b, l>>].active

\* SaleSyncSerializer.is_valid: a non-empty batch of records with a positive
\* total whose items all resolve
ValidSales(d, a, batch) ==
    /\ Len(batch) > 0
    /\ \A i \in 1..Len(batch) : batch[i].total > 0
    /\ \A i \in 1..Len(batch) : \A j \in 1..Len(batch[i].items_data) :
           ValidProductId(d, BusinessOf(a), batch[i].items_data[j].product)

\* the loop that creates the items of a new sale; SaleItem.save() runs
\* full_clean(), which refuses a second row for the same (sale, product)
RECURSIVE CreateItems(_, _, _, _)
CreateItems(d, u, data, i) ==
    IF i > Len(data) THEN [db |-> d, ok |-> TRUE]
    ELSE IF ~d.product[<<d.sale[u].business, data[i].product>>].exists
         THEN [db |-> d, ok |-> FALSE]
    ELSE IF \E j \in 1..Len(d.items[u]) : d.items[u][j].product = data[i].product
         THEN [db |-> d, ok |-> FALSE]
    ELSE CreateItems([d EXCEPT !.items[u] = Append(@, SaleItem(data[i].product, data[i].quantity,
                                                                  data[i].total_price))],
                     u, data, i + 1)

\* the stock loop of an admin's push: an item without stock is skipped
RECURSIVE DecrementAvailable(_, _, _)
DecrementAvailable(d, u, i) ==
    IF i > Len(d.items[u]) THEN d
    ELSE LET it == d.items[u][i] IN
         DecrementAvailable(IF HasStock(d, u, it) THEN Decrement(d, u, it) ELSE d, u, i + 1)

\* created_at of the next sale row
NextCreatedAt(d) == Cardinality({u \in Uuids : d.sale[u].exists}) + 1

\* the defaults of Sale.objects.update_or_create, written to an existing row
UpdateDefaults(row, a, total) ==
    [row EXCEPT !.active = TRUE, !.created_by = a,
                !.pending_approval = (RoleOf(a) = "worker"),
                !.total = total]

\* a round that runs the create-time effects without looking at "created"
SyncSaleNoCreatedGuard(d, a, rec) ==
    LET u == rec.uuid
        b == BusinessOf(a)
    IN IF d.sale[u].exists /\ d.sale[u].business # b
       THEN [db |-> d, ok |-> FALSE]
       ELSE LET d1 == IF d.sale[u].exists
                      THEN [d EXCEPT !.sale[u] = UpdateDefaults(@, a, rec.total), !.items[u] = <<>>]
                      ELSE [d EXCEPT !.sale[u] =
                               [exists |-> TRUE, business |-> b,
                                pending_approval |-> (RoleOf(a) = "worker"),
                                active |-> TRUE, created_by |-> a,
                                created_at |-> NextCreatedAt(d),
                                total |-> rec.total]]
                r == CreateItems(d1, u, rec.items_data, 1)
            IN IF ~r.ok THEN r
               ELSE IF RoleOf(a) = "worker" THEN r
               ELSE [db |-> DecrementAvailable(r.db, u, 1), ok |-> TRUE]

\* a round that subtracts stock for workers too
SyncSaleAlwaysDecrement(d, a, rec) ==
    LET u == rec.uuid
        b == BusinessOf(a)
    IN IF d.sale[u].exists /\ d.sale[u].business = b
       THEN [db |-> [d EXCEPT !.sale[u] = UpdateDefaults(@, a, rec.total)], ok |-> TRUE]
       ELSE IF d.sale[u].exists
       THEN [db |-> d, ok |-> FALSE]
       ELSE LET d1 == [d EXCEPT !.sale[u] =
                          [exists |-> TRUE, business |-> b,
                           pending_approval |-> (RoleOf(a) = "worker"),
                           active |-> TRUE, created_by |-> a,
                           created_at |-> NextCreatedAt(d),
                                total |-> rec.total]]
                r == CreateItems(d1, u, rec.items_data, 1)
            IN IF ~r.ok THEN r
               ELSE [db |-> DecrementAvailable(r.db, u, 1), ok |-> TRUE]

\* one round of the loop of SaleSyncSerializer.create
SyncSale(d, a, rec) ==
    LET u == rec.uuid
        b == BusinessOf(a)
    IN IF d.sale[u].exists /\ d.sale[u].business = b
       THEN [db |-> [d EXCEPT !.sale[u] = UpdateDefaults(@, a, rec.total)], ok |-> TRUE]
       ELSE IF d.sale[u].exists
       THEN [db |-> d, ok |-> FALSE]        \* the uuid is the primary key: IntegrityError
       ELSE LET d1 == [d EXCEPT !.sale[u] =
                          [exists |-> TRUE, business |-> b,
                           pending_approval |-> (RoleOf(a) = "worker"),
                           active |-> TRUE, created_by |-> a,
                           created_at |-> NextCreatedAt(d),
                                total |-> rec.total]]
                r == CreateItems(d1, u, rec.items_data, 1)
            IN IF ~r.ok THEN r
               ELSE IF RoleOf(a) = "worker" THEN r
               ELSE [db |-> DecrementAvailable(r.db, u, 1), ok |-> TRUE]

\* SaleSyncSerializer.create: an exception ends the loop, nothing is undone
RECURSIVE SyncSales(_, _, _, _)
SyncSales(d, a, batch, i) ==
    IF i > Len(batch) THEN [db |-> d, ok |-> TRUE]
    ELSE LET r == SyncSale(d, a, batch[i]) IN
         IF r.ok THEN SyncSales(r.db, a, batch, i + 1) ELSE r

\* SaleSyncView.post
SaleSync(d, a, batch) ==
    IF ~ValidSales(d, a, batch) THEN [db |-> d, status |-> 400]
    ELSE LET r == SyncSales(d, a, batch, 1) IN
         [db |-> r.db, status |-> IF r.ok THEN 201 ELSE 500]

\* ------------------------------------------------------------ Product Reconciler
\* device input: a product record; "active" is optional and defaults to True.
\* The stock is negative, nothing or MaxStock; records with a price the
\* serializer refuses are among CheckedRecords below
ProductRecords ==
    {r \in [id : LocalIds, stock : {-1, 0, MaxStock}, price : Prices, active : {TRUE},
            name : {InitName}, updated_at : {Epoch}] :
        r.price > 0}
ProductBatches == {<<r>> : r \in ProductRecords}

\* a validation that looks at the first record only
ValidFirstProduct(batch) ==
    Len(batch) > 0 /\ batch[1].stock >= 0 /\ batch[1].price > 0

\* ProductSyncItemSerializer: stock = IntegerField(min_value=0), validate_price
ValidProducts(batch) ==
    /\ Len(batch) > 0
    /\ \A i \in 1..Len(batch) : batch[i].stock >= 0 /\ batch[i].price > 0

\* a lookup of the last product that forgets the business
LastIdAnyBusiness(d, b) ==
    IF \E k \in ProductKeys : d.product[k].exists
    THEN CHOOSE l \in AllIds :
             /\ \E c \in Businesses : d.product[<<c, l>>].exists
             /\ \A k \in ProductKeys : d.product[k].exists => k[2] <= l
    ELSE 0

\* "Product.objects.filter(business=self.business).order_by('-id').first()":
\* the largest local id of the business, 0 when it has no product
LastId(d, b) ==
    IF \E l \in AllIds : d.product[<<b, l>>].exists
    THEN CHOOSE l \in AllIds :
             /\ d.product[<<b, l>>].exists
             /\ \A m \in AllIds : d.product[<<b, m>>].exists => m <= l
    ELSE 0

\* Product.save: "if not self.id" holds for a row without local id and for
\* local id 0; such a row gets the largest local id of its business plus one
AssignedId(d, b, l) == IF l = 0 THEN LastId(d, b) + 1 ELSE l

\* Product.save: "self.updated_at = timezone.now()" on every save
SavedProduct(d, rec) ==
    [Product(rec.stock, rec.active, rec.price) EXCEPT
         !.name = rec.name, !.updated_at = d.now]

\* ProductSyncSerializer.create: update_or_create keyed by (business, local_id)
RECURSIVE UpsertProducts(_, _, _, _)
UpsertProducts(d, b, batch, i) ==
    IF i > Len(batch) THEN d
    ELSE UpsertProducts([d EXCEPT !.product[<<b, AssignedId(d, b, batch[i].id)>>] =
                                      SavedProduct(d, batch[i])],
                        b, batch, i + 1)

\* ProductSyncView.post
ProductSync(d, a, batch) ==
    IF ~ValidProducts(batch) THEN [db |-> d, status |-> 400]
    ELSE [db |-> UpsertProducts(d, BusinessOf(a), batch, 1), status |-> 201]

\* ProductViewSet.get_queryset: the active products of the actor's business
\* ProductViewSet.destroy: soft delete
DestroyProduct(d, a, l) ==
    LET k == <<BusinessOf(a), l>> IN
    IF ~(d.product[k].exists /\ d.product[k].active) THEN [db |-> d, status |-> 404]
    ELSE [db |-> [d EXCEPT !.product[k].active = FALSE, !.product[k].updated_at = d.now],
          status |-> 204]

\* ------------------------------------------------------------ requests
NoUuids == <<>>
\* the part of the request body the response echoes
NoBody == <<>>

\* a request is served: its writes and its response become the state
Serve(res, op, a, us, flag, body) ==
    /\ \E r \in {res} :
           /\ product' = r.db.product
           /\ sale' = r.db.sale
           /\ items' = r.db.items
           /\ decs' = r.db.decs
           /\ incs' = r.db.incs
           /\ last' = [op |-> op, actor |-> a, uuids |-> us, flag |-> flag, body |-> body,
                       status |-> r.status]
    /\ nops' = nops + 1
    /\ req' = req

Init ==
    /\ product = [k \in ProductKeys |->
                      IF k \in InitKeys THEN Product(InitStock[k], TRUE, InitPrice) ELSE NoProduct]
    /\ sale = [u \in Uuids |-> NoSale]
    /\ items = [u \in Uuids |-> <<>>]
    /\ decs = [u \in Uuids |-> [l \in LocalIds |-> 0]]
    /\ incs = [u \in Uuids |-> [l \in LocalIds |-> 0]]
    /\ last = [op |-> "none", actor |-> "none", uuids |-> NoUuids, flag |-> FALSE,
               body |-> NoBody, status |-> 0]
    /\ nops = 0
    /\ req = [s \in Slots |-> Idle]

\* a device generates its uuids: the n-th uuid the server gets to see is
\* UuidSeq[n], whoever pushes it
KnownOrNext ==
    {UuidSeq[i] : i \in {j \in 1..Len(UuidSeq) :
                            \A k \in 1..(j - 1) : sale[UuidSeq[k]].exists}}

\* each request below is sent by an actor of A as one of the first n
\* requests of a behaviour
SalePush(A, n) ==
    \E a \in A, batch \in SaleBatches(KnownOrNext) :
        /\ nops < n
        /\ Serve(SaleSync(DB, a, batch), "SalePush", a,
                 [i \in 1..Len(batch) |-> batch[i].uuid], FALSE, Amounts(batch))

ProductPush(A, n) ==
    \E a \in A, batch \in ProductBatches :
        /\ nops < n
        /\ Serve(ProductSync(DB, a, batch), "ProductPush", a, NoUuids, FALSE, batch)

ProductDelete(A, n) ==
    \E a \in A, l \in LocalIds :
        /\ nops < n
        /\ Serve(DestroyProduct(DB, a, l), "ProductDelete", a, NoUuids, FALSE, NoBody)

Approve(A, n) ==
    \E a \in A, u \in Uuids :
        /\ nops < n
        /\ Serve(ApproveSale(DB, a, u), "Approve", a, <<u>>, FALSE, NoBody)

ApproveAllPending(A, n) ==
    \E a \in A :
        /\ nops < n
        /\ LET r == ApproveAll(DB, a)
           IN Serve(r, "ApproveAll", a, NoUuids, FALSE,
                    IF r.status = 200 THEN <<r.approved_count>> ELSE NoBody)

Reject(A, n) ==
    \E a \in A, u \in Uuids :
        /\ nops < n
        /\ Serve(RejectSale(DB, a, u), "Reject", a, <<u>>, FALSE, NoBody)

RejectAllPending(A, n) ==
    \E a \in A :
        /\ nops < n
        /\ Serve(RejectAll(DB, a), "RejectAll", a, NoUuids, FALSE, NoBody)

ReactivateSale(A, n) ==
    \E a \in A, u \in Uuids :
        /\ nops < n
        /\ Serve(Reactivate(DB, a, u), "Reactivate", a, <<u>>, FALSE, NoBody)

Destroy(A, n) ==
    \E a \in A, u \in Uuids, inc \in BOOLEAN :
        /\ nops < n
        /\ Serve(DestroySale(DB, a, u, inc), "Destroy", a, <<u>>, inc, NoBody)

Next ==
    \/ SalePush(Users, MaxOps)
    \/ ProductPush(Users, MaxProductOps)
    \/ ProductDelete(Users, MaxProductOps)
    \/ Approve(Users, MaxOps)
    \/ ApproveAllPending(Users, MaxOps)
    \/ Reject(Users, MaxOps)
    \/ RejectAllPending(Users, MaxOps)
    \/ ReactivateSale(Users, MaxOps)
    \/ Destroy(Users, MaxOps)

\* the requests of the users of business 1; those that change the catalogue
\* are among the first MaxProductOps of them
Spec == Init /\ [][Next]_vars

\* ------------------------------------------------------------ tenants
\* The requests of the users of both businesses.
NextTenants ==
    \/ SalePush(Actors, MaxTenantOps)
    \/ ProductPush(Actors, MaxTenantOps)
    \/ ProductDelete(Actors, MaxTenantOps)
    \/ Approve(Actors, MaxTenantOps)
    \/ ApproveAllPending(Actors, MaxTenantOps)
    \/ Reject(Actors, MaxTenantOps)
    \/ RejectAllPending(Actors, MaxTenantOps)
    \/ ReactivateSale(Actors, MaxTenantOps)
    \/ Destroy(Actors, MaxTenantOps)

SpecTenants == Init /\ [][NextTenants]_vars

\* ------------------------------------------------------------ amounts
\* Pushes whose total need not be the sum of the lines, as the first
\* MaxAmountPushes requests, and the approvals that follow them.
SalePushAnyTotal ==
    \E a \in Users, batch \in AnyTotalBatches(KnownOrNext) :
        /\ nops < MaxAmountPushes
        /\ Serve(SaleSync(DB, a, batch), "SalePush", a,
                 [i \in 1..Len(batch) |-> batch[i].uuid], FALSE, Amounts(batch))

NextAmounts ==
    \/ SalePushAnyTotal
    \/ Approve(Users, MaxOps)
    \/ ApproveAllPending(Users, MaxOps)

SpecAmounts == Init /\ [][NextAmounts]_vars

\* ------------------------------------------------------------ product pushes
\* Product pushes of any length, with records the serializer refuses at any
\* place, with local id 0, and with names, flags and timestamps of the
\* device's own; between them an admin's sale push changes a stock.

\* (stock, price) of a record: valid, negative stock, price zero
StockPrices == {sp \in {-1, MaxStock} \X Prices : sp[1] >= 0 \/ sp[2] > 0}
CheckedRecords ==
    {[id |-> l, stock |-> sp[1], price |-> sp[2], active |-> TRUE,
      name |-> InitName, updated_at |-> Epoch] : l \in LocalIds, sp \in StockPrices}
\* batches of up to two records, the empty batch included
CheckedBatches ==
    {<<>>} \cup {<<r>> : r \in CheckedRecords}
           \cup {<<r, q>> : r \in CheckedRecords, q \in CheckedRecords}

\* updated_at as devices send it: a tick before Epoch, and a tick after
DeviceTimes == {Epoch - 1, Epoch + 1}
\* valid records that rename a product, soft-delete it or keep it
TimedRecords ==
    {[id |-> l, stock |-> MaxStock, price |-> p, active |-> act,
      name |-> "n1", updated_at |-> t] :
         l \in {0, 1}, p \in {p \in Prices : p > 0}, act \in BOOLEAN, t \in DeviceTimes}
TimedBatches == {<<r>> : r \in TimedRecords}

\* the rows a push with local id 0 creates fit into the key space
FitsKeys(d, b, batch) ==
    Cardinality({i \in 1..Len(batch) : batch[i].id = 0}) + LastId(d, b) <= MaxLocalId

ProductPushAny ==
    \E a \in Actors, batch \in CheckedBatches \cup TimedBatches :
        /\ nops < MaxProductOps
        /\ FitsKeys(DB, BusinessOf(a), batch)
        /\ Serve(ProductSync(DB, a, batch), "ProductPush", a, NoUuids, FALSE, batch)

\* an admin's push of a sale with one line
SalePushOneLine ==
    \E a \in {a \in Actors : IsAdmin(a)}, u \in KnownOrNext, l \in LocalIds :
        /\ nops < MaxProductOps
        /\ LET batch == <<ExactRecord(u, <<[product |-> l, quantity |-> 1,
                                            total_price |-> UnitPrice]>>)>>
           IN Serve(SaleSync(DB, a, batch), "SalePush", a, <<u>>, FALSE, Amounts(batch))

NextProducts ==
    \/ ProductPushAny
    \/ SalePushOneLine

SpecProducts == Init /\ [][NextProducts]_vars

\* ------------------------------------------------------------ concurrent requests
\* Every step below is one database statement of a handler; a handler keeps
\* what it has read in local variables, and Model.save() writes the whole
\* row from them.

\* actors of the concurrent behaviours: the users of business 1
ConcAdmins == {"a1"}
ConcUsers == {"a1", "w1"}

New(op, a, L) == [Idle EXCEPT !.op = op, !.actor = a, !.L = L]
Done(r, st) == [r EXCEPT !.pc = "done", !.status = st]

\* the slot is free and every slot before it is in use
Free(s) == req[s].pc = "idle" /\ \A t \in Slots : t < s => req[t].pc # "idle"

UnchangedDB == UNCHANGED <<product, sale, items, decs, incs>>
UnchangedLog == UNCHANGED <<last, nops>>

\* product row the current item of request r points to
ItemKey(r) == <<BusinessOf(r.actor), r.its[r.i].product>>

\* where a handler goes after the item at r.i
AfterItem(r) ==
    IF r.i < Len(r.its) THEN [r EXCEPT !.i = @ + 1, !.pc = "read"]
    ELSE IF r.op = "SalePush" THEN Done(r, 201)
    ELSE IF r.j < Len(r.L) THEN [r EXCEPT !.j = @ + 1, !.pc = "items"]
    ELSE [r EXCEPT !.j = 1, !.pc = "save"]

\* ApproveSaleView.post: Sale.objects.get(...)
StartApprove(s) ==
    \E a \in ConcAdmins, u \in Uuids :
        /\ Free(s)
        /\ req' = [req EXCEPT ![s] =
               IF ~IsPending(DB, BusinessOf(a), u) THEN Done(New("Approve", a, <<u>>), 404)
               ELSE [New("Approve", a, <<u>>) EXCEPT
                        !.rows = <<[sale[u] EXCEPT !.pending_approval = FALSE]>>,
                        !.j = 1, !.pc = "items"]]
        /\ UnchangedDB /\ UnchangedLog

\* ApproveAllPendingView.post: list(Sale.objects.filter(...))
StartApproveAll(s) ==
    \E a \in ConcAdmins :
        /\ Free(s)
        /\ LET L == NewestFirst(DB, PendingOf(DB, BusinessOf(a))) IN
           req' = [req EXCEPT ![s] =
               IF Len(L) = 0 THEN Done(New("ApproveAll", a, L), 200)
               ELSE [New("ApproveAll", a, L) EXCEPT
                        !.rows = [j \in 1..Len(L) |->
                                     [sale[L[j]] EXCEPT !.pending_approval = FALSE]],
                        !.j = 1, !.pc = "items"]]
        /\ UnchangedDB /\ UnchangedLog

\* SaleViewSet.destroy: get_object()
StartDestroy(s) ==
    \E a \in ConcUsers, u \in Uuids, inc \in BOOLEAN :
        /\ Free(s)
        /\ (inc => IsAdmin(a))
        /\ req' = [req EXCEPT ![s] =
               IF ~InQueryset(DB, a, u, inc) THEN Done(New("Destroy", a, <<u>>), 404)
               ELSE [New("Destroy", a, <<u>>) EXCEPT
                        !.rows = <<[sale[u] EXCEPT !.active = FALSE]>>,
                        !.j = 1, !.pc = "items"]]
        /\ UnchangedDB /\ UnchangedLog

\* RejectSaleView.post: Sale.objects.get(...)
StartReject(s) ==
    \E a \in ConcAdmins, u \in Uuids :
        /\ Free(s)
        /\ req' = [req EXCEPT ![s] =
               IF ~IsPending(DB, BusinessOf(a), u) THEN Done(New("Reject", a, <<u>>), 404)
               ELSE [New("Reject", a, <<u>>) EXCEPT
                        !.rows = <<[sale[u] EXCEPT !.active = FALSE]>>,
                        !.j = 1, !.pc = "save"]]
        /\ UnchangedDB /\ UnchangedLog

\* RejectAllPendingView.post: list(Sale.objects.filter(...)), the sales
\* the response will name
StartRejectAll(s) ==
    \E a \in ConcAdmins :
        /\ Free(s)
        /\ req' = [req EXCEPT ![s] =
               [New("RejectAll", a, NewestFirst(DB, PendingOf(DB, BusinessOf(a))))
                   EXCEPT !.pc = "update"]]
        /\ UnchangedDB /\ UnchangedLog

\* RejectAllPendingView.post: Sale.objects.filter(...).update(active=False),
\* one statement over the sales that match when it runs
BulkReject(s) ==
    /\ req[s].pc = "update"
    /\ sale' = [u \in Uuids |->
                   IF IsPending(DB, BusinessOf(req[s].actor), u)
                   THEN [sale[u] EXCEPT !.active = FALSE]
                   ELSE sale[u]]
    /\ req' = [req EXCEPT ![s] = Done(req[s], 200)]
    /\ UNCHANGED <<product, items, decs, incs>> /\ UnchangedLog

\* SaleViewSet.reactivate: Sale.objects.get(uuid, business)
StartReactivate(s) ==
    \E a \in ConcAdmins, u \in Uuids :
        /\ Free(s)
        /\ req' = [req EXCEPT ![s] =
               IF ~(sale[u].exists /\ sale[u].business = BusinessOf(a))
               THEN Done(New("Reactivate", a, <<u>>), 404)
               ELSE IF sale[u].active THEN Done(New("Reactivate", a, <<u>>), 200)
               ELSE [New("Reactivate", a, <<u>>) EXCEPT
                        !.rows = <<[sale[u] EXCEPT !.active = TRUE]>>,
                        !.j = 1, !.pc = "save"]]
        /\ UnchangedDB /\ UnchangedLog

\* "for item in sale.items.all()": the items of the sale at r.j are fetched
LoadItems(s) ==
    /\ req[s].pc = "items"
    /\ LET r == [req[s] EXCEPT !.its = items[req[s].L[req[s].j]], !.i = 0]
       IN req' = [req EXCEPT ![s] =
                     IF Len(r.its) = 0 THEN AfterItem(r)
                     ELSE [r EXCEPT !.i = 1, !.pc = "read"]]
    /\ UnchangedDB /\ UnchangedLog

\* "product = item.product" and the stock test of the handler
ReadProduct(s) ==
    /\ req[s].pc = "read"
    /\ LET r == [req[s] EXCEPT !.prow = product[ItemKey(req[s])]]
           enough == Enough(r.prow, r.its[r.i].quantity)
       IN req' = [req EXCEPT ![s] =
                     IF r.op = "Destroy" \/ enough THEN [r EXCEPT !.pc = "write"]
                     ELSE IF r.op = "SalePush" THEN AfterItem(r)
                     ELSE Done(r, 400)]
    /\ UnchangedDB /\ UnchangedLog

\* "product.save()": the loaded row is written back with the new stock
WriteProduct(s) ==
    /\ req[s].pc = "write"
    /\ LET r == req[s]
           q == r.its[r.i].quantity
           u == r.L[r.j]
       IN /\ product' = [product EXCEPT ![ItemKey(r)] =
                            [r.prow EXCEPT !.stock =
                                IF r.op = "Destroy" THEN @ + q ELSE @ - q,
                                           !.updated_at = DB.now]]
          /\ decs' = IF r.op = "Destroy" THEN decs
                     ELSE [decs EXCEPT ![u][r.its[r.i].product] = @ + 1]
          /\ incs' = IF r.op = "Destroy"
                     THEN [incs EXCEPT ![u][r.its[r.i].product] = @ + 1]
                     ELSE incs
          /\ req' = [req EXCEPT ![s] = AfterItem(r)]
    /\ UNCHANGED <<sale, items>> /\ UnchangedLog

\* "sale.save()": the loaded row is written back with the changed flag
SaveSale(s) ==
    /\ req[s].pc = "save"
    /\ LET r == req[s] IN
       /\ sale' = [sale EXCEPT ![r.L[r.j]] = r.rows[r.j]]
       /\ req' = [req EXCEPT ![s] =
              IF r.j < Len(r.L) THEN [r EXCEPT !.j = @ + 1]
              ELSE Done(r, IF r.op \in {"Destroy", "Reject"} THEN 204 ELSE 200)]
    /\ UNCHANGED <<product, items, decs, incs>> /\ UnchangedLog

\* device input of the concurrent pushes: one record with one line
ConcBatches(U) ==
    {<<ExactRecord(u, x)>> : u \in U, x \in {y \in ItemLists : Len(y) = 1}}

\* SaleSyncView.post: serializer.is_valid()
StartSalePush(s) ==
    \E a \in ConcUsers, batch \in ConcBatches(KnownOrNext) :
        /\ Free(s)
        /\ req' = [req EXCEPT ![s] =
               IF ~ValidSales(DB, a, batch)
               THEN Done(New("SalePush", a, <<batch[1].uuid>>), 400)
               ELSE [New("SalePush", a, <<batch[1].uuid>>) EXCEPT
                        !.data = batch[1].items_data, !.total = batch[1].total,
                        !.j = 1, !.pc = "upsert"]]
        /\ UnchangedDB /\ UnchangedLog

\* an upsert that takes every sale of the business for a new one
UpsertSaleAsNew(s) ==
    /\ req[s].pc = "upsert"
    /\ LET r == req[s]
           u == r.L[1]
           b == BusinessOf(r.actor)
       IN IF sale[u].exists /\ sale[u].business # b
          THEN /\ sale' = sale
               /\ req' = [req EXCEPT ![s] = Done(r, 500)]
          ELSE /\ sale' = [sale EXCEPT ![u] =
                              [exists |-> TRUE, business |-> b,
                               pending_approval |-> (RoleOf(r.actor) = "worker"),
                               active |-> TRUE, created_by |-> r.actor,
                               created_at |-> IF sale[u].exists THEN sale[u].created_at
                                              ELSE NextCreatedAt(DB),
                               total |-> r.total]]
               /\ req' = [req EXCEPT ![s] = [r EXCEPT !.i = 1, !.pc = "create"]]
    /\ UNCHANGED <<product, items, decs, incs>> /\ UnchangedLog

\* Sale.objects.update_or_create: one atomic statement, the row is locked
UpsertSale(s) ==
    /\ req[s].pc = "upsert"
    /\ LET r == req[s]
           u == r.L[1]
           b == BusinessOf(r.actor)
       IN IF sale[u].exists /\ sale[u].business = b
          THEN /\ sale' = [sale EXCEPT ![u] = UpdateDefaults(@, r.actor, r.total)]
               /\ req' = [req EXCEPT ![s] = Done(r, 201)]
          ELSE IF sale[u].exists
          THEN /\ sale' = sale
               /\ req' = [req EXCEPT ![s] = Done(r, 500)]
          ELSE /\ sale' = [sale EXCEPT ![u] =
                              [exists |-> TRUE, business |-> b,
                               pending_approval |-> (RoleOf(r.actor) = "worker"),
                               active |-> TRUE, created_by |-> r.actor,
                               created_at |-> NextCreatedAt(DB),
                               total |-> r.total]]
               /\ req' = [req EXCEPT ![s] = [r EXCEPT !.i = 1, !.pc = "create"]]
    /\ UNCHANGED <<product, items, decs, incs>> /\ UnchangedLog

\* Product.objects.get(...) and SaleItem.objects.create(...) for one line
CreateItem(s) ==
    /\ req[s].pc = "create"
    /\ LET r == req[s]
           u == r.L[1]
           line == r.data[r.i]
       IN IF \/ ~product[<<BusinessOf(r.actor), line.product>>].exists
             \/ \E n \in 1..Len(items[u]) : items[u][n].product = line.product
          THEN /\ items' = items
               /\ req' = [req EXCEPT ![s] = Done(r, 500)]
          ELSE /\ items' = [items EXCEPT ![u] = Append(@, SaleItem(line.product, line.quantity,
                                                                   line.total_price))]
               /\ req' = [req EXCEPT ![s] =
                      IF r.i < Len(r.data) THEN [r EXCEPT !.i = @ + 1]
                      ELSE IF RoleOf(r.actor) = "worker" THEN Done(r, 201)
                      ELSE [r EXCEPT !.pc = "items"]]
    /\ UNCHANGED <<product, sale, decs, incs>> /\ UnchangedLog

\* ProductSyncView.post: validation, then one update_or_create per record
ProductPushNow(s) ==
    \E a \in ConcAdmins, batch \in ProductBatches :
        /\ Free(s)
        /\ \E r \in {ProductSync(DB, a, batch)} :
               /\ product' = r.db.product
               /\ req' = [req EXCEPT ![s] = Done(New("ProductPush", a, <<>>), r.status)]
        /\ UNCHANGED <<sale, items, decs, incs>> /\ UnchangedLog

\* ProductViewSet.destroy: get_object()
StartProductDelete(s) ==
    \E a \in ConcAdmins, l \in LocalIds :
        /\ Free(s)
        /\ LET k == <<BusinessOf(a), l>> IN
           req' = [req EXCEPT ![s] =
               IF ~(product[k].exists /\ product[k].active)
               THEN Done([New("ProductDelete", a, <<>>) EXCEPT !.lid = l], 404)
               ELSE [New("ProductDelete", a, <<>>) EXCEPT
                        !.lid = l, !.prow = product[k], !.pc = "psave"]]
        /\ UnchangedDB /\ UnchangedLog

\* ProductViewSet.destroy: instance.active = False; instance.save()
SaveProduct(s) ==
    /\ req[s].pc = "psave"
    /\ product' = [product EXCEPT ![<<BusinessOf(req[s].actor), req[s].lid>>] =
                      [req[s].prow EXCEPT !.active = FALSE, !.updated_at = DB.now]]
    /\ req' = [req EXCEPT ![s] = Done(req[s], 204)]
    /\ UNCHANGED <<sale, items, decs, incs>> /\ UnchangedLog

\* the state business 1 is in when the concurrent requests arrive: one of
\* its users has pushed one or two sales, one after the other
SetUpBatches ==
    {<<ExactRecord(UuidSeq[1], x)>> : x \in ItemLists}
    \cup {<<ExactRecord(UuidSeq[1], x), ExactRecord(UuidSeq[2], y)>> :
              x \in ItemLists, y \in ItemLists}

DB0 == [product |-> [k \in ProductKeys |->
                        IF k \in InitKeys THEN Product(InitStock[k], TRUE, InitPrice) ELSE NoProduct],
        sale |-> [u \in Uuids |-> NoSale],
        items |-> [u \in Uuids |-> <<>>],
        decs |-> [u \in Uuids |-> [l \in LocalIds |-> 0]],
        incs |-> [u \in Uuids |-> [l \in LocalIds |-> 0]],
        now |-> Epoch]

InitConc ==
    /\ \E a \in ConcUsers, batch \in SetUpBatches : \E r \in {SaleSync(DB0, a, batch)} :
           /\ product = r.db.product
           /\ sale = r.db.sale
           /\ items = r.db.items
           /\ decs = r.db.decs
           /\ incs = r.db.incs
    /\ last = [op |-> "none", actor |-> "none", uuids |-> NoUuids, flag |-> FALSE,
               body |-> NoBody, status |-> 0]
    /\ nops = 0
    /\ req = [s \in Slots |-> Idle]

NextConc ==
    \E s \in Slots :
        \/ StartApprove(s)
        \/ StartApproveAll(s)
        \/ StartDestroy(s)
        \/ StartReject(s)
        \/ StartReactivate(s)
        \/ StartRejectAll(s)
        \/ BulkReject(s)
        \/ LoadItems(s)
        \/ ReadProduct(s)
        \/ WriteProduct(s)
        \/ SaveSale(s)
        \/ StartSalePush(s)
        \/ UpsertSale(s)
        \/ CreateItem(s)
        \/ ProductPushNow(s)
        \/ StartProductDelete(s)
        \/ SaveProduct(s)

SpecConc == InitConc /\ [][NextConc]_vars

\* ------------------------------------------------------------ concurrent pushes
\* Two sale pushes at a time and nothing else, from the initial state.
NextRace ==
    \E s \in Slots :
        \/ StartSalePush(s)
        \/ UpsertSale(s)
        \/ CreateItem(s)
        \/ LoadItems(s)
        \/ ReadProduct(s)
        \/ WriteProduct(s)

SpecRace == Init /\ [][NextRace]_vars

\* ------------------------------------------------------------ local ids
\* Products saved without a local id, concurrently with each other and
\* with product pushes: Product.save reads the last product of the business
\* in one statement and inserts the row in another.

\* the record of a product that has no local id yet
NewRecord == [id |-> 0, stock |-> MaxStock, price |-> InitPrice, active |-> TRUE,
              name |-> "n1", updated_at |-> Epoch]

InFlight == Cardinality({s \in Slots : req[s].pc # "idle"})

\* Product.save: "if not self.id", the last product of the business is read
StartSave(s) ==
    \E a \in Actors :
        /\ Free(s)
        /\ nops + InFlight < MaxSaves
        /\ LastId(DB, BusinessOf(a)) < MaxLocalId
        /\ req' = [req EXCEPT ![s] =
               [New("ProductSave", a, <<>>) EXCEPT
                   !.lid = AssignedId(DB, BusinessOf(a), NewRecord.id), !.pc = "insert"]]
        /\ UnchangedDB /\ UnchangedLog

\* Product.save: "super().save()", the INSERT; unique_together
\* (business, id) makes the database refuse a second row with the key
InsertProduct(s) ==
    /\ req[s].pc = "insert"
    /\ LET k == <<BusinessOf(req[s].actor), req[s].lid>> IN
       IF product[k].exists
       THEN /\ product' = product
            /\ req' = [req EXCEPT ![s] = Done(req[s], 500)]
       ELSE /\ product' = [product EXCEPT ![k] = SavedProduct(DB, NewRecord)]
            /\ req' = [req EXCEPT ![s] = Done(req[s], 201)]
    /\ UNCHANGED <<sale, items, decs, incs>> /\ UnchangedLog

\* the response is sent: the request is over
Respond(s) ==
    /\ req[s].pc = "done"
    /\ last' = [op |-> req[s].op, actor |-> req[s].actor, uuids |-> NoUuids,
                flag |-> FALSE, body |-> <<[id |-> req[s].lid]>>,
                status |-> req[s].status]
    /\ nops' = nops + 1
    /\ req' = [req EXCEPT ![s] = Idle]
    /\ UnchangedDB

\* business 2 starts with its product or with none
InitIds ==
    /\ \E K \in {InitKeys, {k \in InitKeys : k[1] = 1}} :
           product = [k \in ProductKeys |->
                         IF k \in K THEN Product(InitStock[k], TRUE, InitPrice) ELSE NoProduct]
    /\ sale = [u \in Uuids |-> NoSale]
    /\ items = [u \in Uuids |-> <<>>]
    /\ decs = [u \in Uuids |-> [l \in LocalIds |-> 0]]
    /\ incs = [u \in Uuids |-> [l \in LocalIds |-> 0]]
    /\ last = [op |-> "none", actor |-> "none", uuids |-> NoUuids, flag |-> FALSE,
               body |-> NoBody, status |-> 0]
    /\ nops = 0
    /\ req = [s \in Slots |-> Idle]

\* ProductSyncView.post with one record that names its local id
PushWithId ==
    \E a \in Actors, l \in LocalIds :
        /\ nops + InFlight < MaxSaves
        /\ Serve(ProductSync(DB, a, <<[NewRecord EXCEPT !.id = l]>>),
                 "ProductPush", a, NoUuids, FALSE, <<[id |-> l]>>)

NextIds ==
    \/ \E s \in Slots : StartSave(s) \/ InsertProduct(s) \/ Respond(s)
    \/ PushWithId

SpecIds == InitIds /\ [][NextIds]_vars

\* ------------------------------------------------------------ sale lifecycle
\* The users of business 1 have pushed one or two sales; from there on the
\* sales are approved, deleted (without include_inactive) and reactivated.
LifecycleApprove ==
    \E a \in ConcAdmins, u \in Uuids :
        /\ nops < MaxLifecycleOps
        /\ Serve(ApproveSale(DB, a, u), "Approve", a, <<u>>, FALSE, NoBody)

LifecycleDestroy ==
    \E a \in ConcUsers, u \in Uuids :
        /\ nops < MaxLifecycleOps
        /\ Serve(DestroySale(DB, a, u, FALSE), "Destroy", a, <<u>>, FALSE, NoBody)

LifecycleReactivate ==
    \E a \in ConcAdmins, u \in Uuids :
        /\ nops < MaxLifecycleOps
        /\ Serve(Reactivate(DB, a, u), "Reactivate", a, <<u>>, FALSE, NoBody)

NextLifecycle ==
    \/ LifecycleApprove
    \/ LifecycleDestroy
    \/ LifecycleReactivate

SpecLifecycle == InitConc /\ [][NextLifecycle]_vars

\* ------------------------------------------------------------ queries
\* The two read-only requests, answered after up to MaxQueryOps requests of
\* the users of both businesses that push, approve, reject and delete sales.

\* "agg[pid]": the dictionary keeps its entries in insertion order
AddItem(agg, d, u, it) ==
    IF \E i \in 1..Len(agg) : agg[i].product_id = it.product
    THEN [i \in 1..Len(agg) |->
              IF agg[i].product_id = it.product
              THEN [agg[i] EXCEPT !.quantity_sold = @ + it.quantity,
                                  !.partial_amount = @ + it.total_price]
              ELSE agg[i]]
    ELSE Append(agg, [product_id |-> it.product,
                      product_name |-> d.product[ProductOf(d, u, it)].name,
                      quantity_sold |-> it.quantity,
                      partial_amount |-> it.total_price])

\* "for item in sale.items.all()"
RECURSIVE AddItems(_, _, _, _)
AddItems(agg, d, u, i) ==
    IF i > Len(d.items[u]) THEN agg
    ELSE AddItems(AddItem(agg, d, u, d.items[u][i]), d, u, i + 1)

\* "for sale in sales"
RECURSIVE AddSales(_, _, _, _)
AddSales(acc, d, L, j) ==
    IF j > Len(L) THEN acc
    ELSE AddSales([total |-> acc.total + d.sale[L[j]].total,
                   products |-> AddItems(acc.products, d, L[j], 1)], d, L, j + 1)

\* an aggregation over the pending sales of the business, inactive ones included
PendingSummaryInactiveToo(d, a) ==
    IF ~IsAdmin(a) THEN [status |-> 403, data |-> NoBody]
    ELSE LET S == {u \in Uuids : /\ d.sale[u].exists
                                 /\ d.sale[u].business = BusinessOf(a)
                                 /\ d.sale[u].pending_approval}
         IN [status |-> 200,
             data |-> AddSales([total |-> 0, products |-> <<>>], d, NewestFirst(d, S), 1)]

\* PendingSalesView.get
PendingSummary(d, a) ==
    IF ~IsAdmin(a) THEN [status |-> 403, data |-> NoBody]
    ELSE [status |-> 200,
          data |-> AddSales([total |-> 0, products |-> <<>>], d,
                            NewestFirst(d, PendingOf(d, BusinessOf(a))), 1)]

\* a listing that shows every user all the sales of the queryset's business
ListSalesOfAnyUser(d, a, include_inactive) ==
    NewestFirst(d, {u \in Uuids : /\ d.sale[u].exists
                                  /\ d.sale[u].business = BusinessOf(a)
                                  /\ ~d.sale[u].pending_approval
                                  /\ (~(include_inactive /\ IsAdmin(a)) => d.sale[u].active)})

\* SaleViewSet.list: the sales of get_queryset, newest first
ListSales(d, a, include_inactive) ==
    NewestFirst(d, {u \in Uuids : InQueryset(d, a, u, include_inactive)})

\* line items with the products in ascending order, none of them twice
QueryItemLists ==
    {x \in ItemLists : \A i \in 1..Len(x) : \A j \in 1..Len(x) :
                           i < j => x[i].product < x[j].product}

QueryPush ==
    \E a \in Actors, u \in KnownOrNext, x \in QueryItemLists :
        /\ nops < MaxQueryOps
        /\ LET batch == <<ExactRecord(u, x)>>
           IN Serve(SaleSync(DB, a, batch), "SalePush", a, <<u>>, FALSE, Amounts(batch))

\* the response data is kept in last.body
PendingSales ==
    \E a \in Actors :
        /\ nops < MaxQueryOps + 1
        /\ LET r == PendingSummary(DB, a)
           IN Serve([db |-> DB, status |-> r.status], "PendingSales", a, NoUuids, FALSE,
                    r.data)

SaleList ==
    \E a \in Actors, inc \in BOOLEAN :
        /\ nops < MaxQueryOps + 1
        /\ Serve([db |-> DB, status |-> 200], "SaleList", a, NoUuids, inc,
                 ListSales(DB, a, inc))

NextQueries ==
    \/ QueryPush
    \/ Approve(Actors, MaxQueryOps)
    \/ Reject(Actors, MaxQueryOps)
    \/ Destroy(Actors, MaxQueryOps)
    \/ PendingSales
    \/ SaleList

SpecQueries == Init /\ [][NextQueries]_vars

\* ------------------------------------------------------------ sales only
\* The requests of the users of business 1 that push sales and move them
\* through their lifecycle; the catalogue stays as it was pushed before.
NextSales ==
    \/ SalePush(Users, MaxOps)
    \/ Approve(Users, MaxOps)
    \/ ApproveAllPending(Users, MaxOps)
    \/ Reject(Users, MaxOps)
    \/ RejectAllPending(Users, MaxOps)
    \/ ReactivateSale(Users, MaxOps)
    \/ Destroy(Users, MaxOps)

SpecSales == Init /\ [][NextSales]_vars

\* ------------------------------------------------------------ properties
\* the step serves a request of kind op
Served(op) == nops' = nops + 1 /\ last'.op = op

Stock(P) == [k \in ProductKeys |-> P[k].stock]

\* a product row without the time of its last save
Columns(row) == [row EXCEPT !.updated_at = 0]

\* the rows of a sale were each decremented at least once
AllDecremented(u) ==
    \A i \in 1..Len(items[u]) : decs[u][items[u][i].product] >= 1

\* C1: whatever requests are served, the quantity of an item of a sale is
\* subtracted from its product's stock at most once in total.
C1_AtMostOnce == \A u \in Uuids : \A l \in LocalIds : decs[u][l] <= 1

\* C2: a push whose uuids all exist in the actor's business creates no
\* SaleItem and leaves every stock as it was, for workers and admins alike.
C2_ReplayKeepsItemsAndStock ==
    [][(/\ Served("SalePush")
        /\ \A i \in 1..Len(last'.uuids) :
               /\ sale[last'.uuids[i]].exists
               /\ sale[last'.uuids[i]].business = BusinessOf(last'.actor))
       => (/\ items' = items
           /\ Stock(product') = Stock(product)
           /\ decs' = decs)]_vars

\* a worker has replayed the sale an admin created: the row is pending again,
\* its single decrement is the admin's
C2_Witness ==
    /\ last.op = "SalePush" /\ last.actor = "w1" /\ last.status = 201
    /\ \E u \in Uuids :
           /\ last.uuids = <<u>>
           /\ sale[u].pending_approval
           /\ Len(items[u]) = 1
           /\ decs[u][items[u][1].product] = 1

\* C4: an Approve that fails for lack of stock leaves every stock as it was
\* and the sale pending and active.
C4_FailedApproveRollsBack ==
    [][(Served("Approve") /\ last'.status = 400)
       => (/\ Stock(product') = Stock(product)
           /\ sale'[last'.uuids[1]].pending_approval
           /\ sale'[last'.uuids[1]].active)]_vars

\* C5: an ApproveAll that fails for lack of stock leaves every stock as it
\* was and every pending sale pending.
C5_FailedApproveAllRollsBack ==
    [][(Served("ApproveAll") /\ last'.status = 400)
       => (/\ Stock(product') = Stock(product)
           /\ \A u \in Uuids :
                  (/\ sale[u].exists
                   /\ sale[u].business = BusinessOf(last'.actor)
                   /\ sale[u].pending_approval /\ sale[u].active)
                      => sale'[u].pending_approval /\ sale'[u].active)]_vars

\* C7: an admin's Approve of a sale that is not pending and active in the
\* admin's business answers 404 and writes nothing; hence an Approve right
\* after a successful Approve of the same sale subtracts nothing.
C7_ApproveNotPendingIsNoOp ==
    [][/\ (/\ Served("Approve")
           /\ RoleOf(last'.actor) = "admin"
           /\ ~(/\ sale[last'.uuids[1]].exists
                /\ sale[last'.uuids[1]].business = BusinessOf(last'.actor)
                /\ sale[last'.uuids[1]].pending_approval
                /\ sale[last'.uuids[1]].active))
          => (/\ last'.status = 404
              /\ sale' = sale /\ product' = product
              /\ items' = items /\ decs' = decs)
       /\ (/\ Served("Approve")
           /\ last.op = "Approve" /\ last.status = 200
           /\ last'.uuids = last.uuids /\ last'.actor = last.actor)
          => (last'.status = 404 /\ product' = product /\ decs' = decs)]_vars

\* an approved sale, decremented once, has been approved again: 404
C7_Witness ==
    /\ last.op = "Approve" /\ last.status = 404 /\ IsAdmin(last.actor)
    /\ \E u \in Uuids :
           /\ last.uuids = <<u>>
           /\ sale[u].exists /\ sale[u].business = BusinessOf(last.actor)
           /\ ~sale[u].pending_approval /\ sale[u].active
           /\ Len(items[u]) > 0
           /\ \A i \in 1..Len(items[u]) : decs[u][items[u][i].product] = 1

\* C9: the push by which a worker creates a sale leaves it pending and
\* active and changes no stock; a decrement for a sale is written only by
\* Approve, by ApproveAll, or by the admin push that creates the sale.
C9_WorkerPushDefersStock ==
    [][/\ (/\ Served("SalePush")
           /\ RoleOf(last'.actor) = "worker"
           /\ last'.status = 201
           /\ ~sale[last'.uuids[1]].exists)
          => (/\ sale'[last'.uuids[1]].exists
              /\ sale'[last'.uuids[1]].pending_approval
              /\ sale'[last'.uuids[1]].active
              /\ Stock(product') = Stock(product)
              /\ decs' = decs)
       /\ \A u \in Uuids :
              decs'[u] # decs[u]
                  => \/ Served("Approve") \/ Served("ApproveAll")
                     \/ (/\ Served("SalePush")
                         /\ RoleOf(last'.actor) = "admin"
                         /\ ~sale[u].exists)]_vars

\* a worker has just created a sale with items
C9_Witness ==
    /\ last.op = "SalePush" /\ last.actor = "w1" /\ last.status = 201
    /\ \E u \in Uuids :
           /\ last.uuids = <<u>>
           /\ sale[u].created_by = "w1" /\ sale[u].pending_approval /\ sale[u].active
           /\ Len(items[u]) = 2
           /\ \A l \in LocalIds : decs[u][l] = 0
           /\ nops = 1

\* C10: no approved, active sale exists whose items were not subtracted from
\* stock (an admin's push subtracts every item or fails).
C10_ApprovedMeansDecremented ==
    \A u \in Uuids :
        (sale[u].exists /\ ~sale[u].pending_approval /\ sale[u].active)
            => AllDecremented(u)

\* quantity of the item of sale u for product l, 0 when it has none
Qty(u, l) ==
    IF \E i \in 1..Len(items[u]) : items[u][i].product = l
    THEN items[u][CHOOSE i \in 1..Len(items[u]) : items[u][i].product = l].quantity
    ELSE 0

\* C3: no product's stored stock is ever negative, whatever requests run
\* and however their statements interleave.
C3_StockNeverNegative == \A k \in ProductKeys : product[k].stock >= 0

\* of two concurrent approvals one went through and took the last unit,
\* the other was refused for lack of stock
C3_Witness ==
    \E s \in Slots, t \in Slots :
        /\ s # t
        /\ req[s].op = "Approve" /\ req[s].pc = "done" /\ req[s].status = 200
        /\ req[t].op \in {"Approve", "ApproveAll"}
        /\ req[t].pc = "done" /\ req[t].status = 400
        /\ \E l \in LocalIds :
               /\ product[<<1, l>>].stock = 0
               /\ decs[req[s].L[1]][l] = 1

\* two Approve requests for different sales a worker pushed have both
\* ended, each with success or without having written anything
TwoApprovals(s, t) ==
    /\ s # t
    /\ req[s].op = "Approve" /\ req[s].pc = "done"
    /\ req[t].op = "Approve" /\ req[t].pc = "done"
    /\ req[s].status # 404 /\ req[t].status # 404
    /\ req[s].L # req[t].L
    /\ \A x \in {s, t} :
           /\ sale[req[x].L[1]].created_by = "w1"
           /\ (req[x].status = 200 \/ \A l \in LocalIds : decs[req[x].L[1]][l] = 0)

Subtracted(x, l) == IF req[x].status = 200 THEN Qty(req[x].L[1], l) ELSE 0

\* C6: concurrent approvals of different sales serialise on a product:
\* both succeed only if the stock covers both quantities, and afterwards
\* the stock is the initial stock minus the quantities of the successful ones.
C6_ApprovalsSerialize ==
    \A s \in Slots, t \in Slots :
        TwoApprovals(s, t) =>
            \A l \in LocalIds :
                /\ product[<<1, l>>].stock =
                       InitStock[<<1, l>>] - Subtracted(s, l) - Subtracted(t, l)
                /\ (req[s].status = 200 /\ req[t].status = 200)
                       => Qty(req[s].L[1], l) + Qty(req[t].L[1], l) <= InitStock[<<1, l>>]

\* C8: when two approvals covering the same pending sale run concurrently
\* and both succeed, the sale's quantities are subtracted only once.
C8_ConcurrentApprovalOnce ==
    (\A s \in Slots :
         /\ req[s].op \in {"Approve", "ApproveAll"}
         /\ req[s].pc = "done" /\ req[s].status = 200)
        => \A u \in Uuids : \A l \in LocalIds : decs[u][l] <= 1

\* C11: Reject on a pending, active sale sets active=false and leaves
\* pending_approval and every stock unchanged; when a worker's push is
\* followed by the rejection of that sale, every stock is what it was
\* before the push.
C11_RejectOnlyDeactivates ==
    [][(/\ Served("Reject")
        /\ RoleOf(last'.actor) = "admin"
        /\ sale[last'.uuids[1]].exists
        /\ sale[last'.uuids[1]].business = BusinessOf(last'.actor)
        /\ sale[last'.uuids[1]].pending_approval
        /\ sale[last'.uuids[1]].active)
          => (/\ last'.status = 204
              /\ ~sale'[last'.uuids[1]].active
              /\ sale'[last'.uuids[1]].pending_approval
              /\ \A k \in ProductKeys : product'[k].stock = product[k].stock
              /\ (/\ nops = 1
                  /\ last.op = "SalePush" /\ last.status = 201
                  /\ last.uuids = last'.uuids
                  /\ RoleOf(last.actor) = "worker")
                     => \A k \in InitKeys : product'[k].stock = InitStock[k])]_vars

\* a worker's push was the first request and its sale has just been rejected
C11_Witness ==
    /\ last.op = "Reject" /\ last.status = 204 /\ nops = 2
    /\ sale[last.uuids[1]].created_by = "w1"
    /\ sale[last.uuids[1]].pending_approval
    /\ ~sale[last.uuids[1]].active

\* the records of a business other than b
ForeignProduct(b, k) == k[1] # b
ForeignSale(b, u) == sale[u].exists /\ sale[u].business # b

C13_ProductPushIdempotent ==
    [][(/\ Served("ProductPush") /\ last'.status = 201
        /\ last.op = "ProductPush" /\ last.status = 201
        /\ BusinessOf(last.actor) = BusinessOf(last'.actor)
        /\ last.body = last'.body)
          => (/\ \A k \in ProductKeys : Columns(product'[k]) = Columns(product[k])
              /\ {k \in ProductKeys : product'[k].exists} =
                     {k \in ProductKeys : product[k].exists})]_vars

\* |total - sum of the lines| of the record a push carried, in cents
Mismatch(amt) ==
    IF amt.total >= amt.items_total THEN amt.total - amt.items_total
    ELSE amt.items_total - amt.total

\* C14: a sale push whose total differs from the sum of its lines by more
\* than one cent is refused with a validation error and persists nothing.
C14_TotalMismatchRejected ==
    [][(Served("SalePush") /\ Mismatch(last'.body[1]) > 1)
          => (/\ last'.status = 400
              /\ UNCHANGED <<product, sale, items, decs>>)]_vars

\* C15: a push of a uuid that already exists in the pusher's business
\* leaves the sale's pending_approval, active and created_by as they are.
C15_ReplayKeepsFlags ==
    [][(/\ Served("SalePush")
        /\ sale[last'.uuids[1]].exists
        /\ sale[last'.uuids[1]].business = BusinessOf(last'.actor))
          => (/\ sale'[last'.uuids[1]].pending_approval = sale[last'.uuids[1]].pending_approval
              /\ sale'[last'.uuids[1]].active = sale[last'.uuids[1]].active
              /\ sale'[last'.uuids[1]].created_by = sale[last'.uuids[1]].created_by)]_vars

\* the lifecycle: the flag changes (pending_approval, active) a request may
\* make to a sale, and the requests that may make them
Lifecycle ==
    {<<<<TRUE, TRUE>>, <<FALSE, TRUE>>, "Approve">>,
     <<<<TRUE, TRUE>>, <<FALSE, TRUE>>, "ApproveAll">>,
     <<<<TRUE, TRUE>>, <<TRUE, FALSE>>, "Reject">>,
     <<<<TRUE, TRUE>>, <<TRUE, FALSE>>, "RejectAll">>,
     <<<<FALSE, TRUE>>, <<FALSE, FALSE>>, "Destroy">>,
     <<<<FALSE, FALSE>>, <<FALSE, TRUE>>, "Reactivate">>}
Flags(row) == <<row.pending_approval, row.active>>

\* C16: a sale's flags change only along the lifecycle; an approved sale
\* never becomes pending again, and a rejected sale never becomes active
\* again and never has its quantities subtracted.
C16_FlagsFollowLifecycle ==
    [][(nops' = nops + 1) =>
           \A u \in Uuids : sale[u].exists =>
               /\ Flags(sale'[u]) # Flags(sale[u])
                      => <<Flags(sale[u]), Flags(sale'[u]), last'.op>> \in Lifecycle
               /\ Flags(sale[u]) = <<TRUE, FALSE>>
                      => Flags(sale'[u]) = <<TRUE, FALSE>> /\ decs'[u] = decs[u]]_vars

\* the request just served was a Destroy by a caller whose queryset holds
\* the sale: a sale of the caller's business, a worker's own
Destroyed(u) ==
    /\ Served("Destroy")
    /\ last'.uuids = <<u>>
    /\ sale[u].exists
    /\ sale[u].business = BusinessOf(last'.actor)
    /\ RoleOf(last'.actor) = "worker" => sale[u].created_by = last'.actor

\* C17: Destroy of an approved, active sale adds each item's quantity to
\* its product's stock, sets the sale's active=false, and changes no other
\* product and no other sale.
C17_DestroyRestoresStock ==
    [][\A u \in Uuids :
           (Destroyed(u) /\ ~sale[u].pending_approval /\ sale[u].active) =>
               /\ last'.status = 204
               /\ \A k \in ProductKeys :
                      IF k[1] = sale[u].business /\ Qty(u, k[2]) > 0
                      THEN Columns(product'[k]) =
                               Columns([product[k] EXCEPT !.stock = @ + Qty(u, k[2])])
                      ELSE product'[k] = product[k]
               /\ sale' = [sale EXCEPT ![u].active = FALSE]
               /\ items' = items]_vars

\* an admin's sale was subtracted from the stock and then destroyed, which
\* brought the stock of its products back to the initial one
C17_Witness ==
    /\ last.op = "Destroy" /\ last.status = 204 /\ nops = 2
    /\ LET u == last.uuids[1] IN
       /\ ~sale[u].active /\ ~sale[u].pending_approval
       /\ \E l \in LocalIds : decs[u][l] = 1
       /\ \A k \in InitKeys : product[k].stock = InitStock[k]

\* C18: Destroy addressed to a sale that is pending or already inactive
\* changes no product stock, so a repeated Destroy restores nothing more.
C18_DestroyRestoresOnce ==
    [][\A u \in Uuids :
           (/\ Served("Destroy") /\ last'.uuids = <<u>>
            /\ sale[u].exists
            /\ (sale[u].pending_approval \/ ~sale[u].active))
              => \A k \in ProductKeys : product'[k].stock = product[k].stock]_vars

\* C19: Reactivate changes no product in any case; on an inactive sale of
\* the admin's business it only sets active=true, and on an active sale
\* it changes nothing.
C19_ReactivateKeepsStock ==
    [][\A u \in Uuids :
           (Served("Reactivate") /\ last'.uuids = <<u>>) =>
               /\ product' = product
               /\ items' = items /\ decs' = decs /\ incs' = incs
               /\ (/\ RoleOf(last'.actor) = "admin"
                   /\ sale[u].exists
                   /\ sale[u].business = BusinessOf(last'.actor))
                      => /\ last'.status = 200
                         /\ sale' = [sale EXCEPT ![u].active = TRUE]]_vars

\* an admin's sale was destroyed and reactivated: it is active again, was
\* subtracted once and restored once
C19_Witness ==
    /\ last.op = "Reactivate" /\ last.status = 200
    /\ LET u == last.uuids[1] IN
       /\ sale[u].active /\ ~sale[u].pending_approval
       /\ \E l \in LocalIds :
              /\ decs[u][l] = 1 /\ incs[u][l] = 1
              /\ product[<<sale[u].business, l>>].stock = InitStock[<<sale[u].business, l>>]

\* what the requests for the items of product l have written to its stock
Net(u, l) == (incs[u][l] - decs[u][l]) * Qty(u, l)
RECURSIVE NetAll(_, _)
NetAll(i, l) == IF i > Len(UuidSeq) THEN 0 ELSE Net(UuidSeq[i], l) + NetAll(i + 1, l)

\* C20: Destroy followed by Reactivate leaves an approved sale active and
\* approved with the stock of each of its products higher by the item's
\* quantity than before the Destroy; n such pairs raise it by n times the
\* quantity: the stock is the initial stock, minus each quantity times
\* the subtractions of its item, plus each quantity times its restores.
C20_DestroyReactivateRaisesStock ==
    /\ [](\A l \in LocalIds :
              product[<<1, l>>].stock = InitStock[<<1, l>>] + NetAll(1, l))
    /\ [][\A u \in Uuids :
              (/\ Served("Reactivate") /\ last'.uuids = <<u>>
               /\ last.op = "Destroy" /\ last.status = 204 /\ last.uuids = <<u>>)
                 => /\ sale'[u].active /\ ~sale'[u].pending_approval
                    /\ \A l \in LocalIds :
                           /\ incs'[u][l] = incs[u][l]
                           /\ Qty(u, l) > 0 => incs[u][l] >= 1
                           /\ product'[<<1, l>>].stock = product[<<1, l>>].stock]_vars

\* a sale subtracted once has been destroyed and reactivated twice: it is
\* active and approved, and its product has twice the quantity more than
\* after the subtraction
C20_Witness ==
    /\ last.op = "Reactivate" /\ last.status = 200
    /\ LET u == last.uuids[1] IN
       /\ sale[u].active /\ ~sale[u].pending_approval
       /\ \E l \in LocalIds :
              /\ decs[u][l] = 1 /\ incs[u][l] = 2
              /\ \A v \in Uuids \ {u} : Qty(v, l) = 0
              /\ product[<<1, l>>].stock = InitStock[<<1, l>>] - Qty(u, l) + 2 * Qty(u, l)

\* the batch is empty or one of its records has price <= 0 or stock < 0
Refused(batch) ==
    \/ Len(batch) = 0
    \/ \E i \in 1..Len(batch) : batch[i].price <= 0 \/ batch[i].stock < 0

\* C21: a product push whose batch is empty, or has a record with
\* price <= 0 or stock < 0 at any place, is refused with a validation error
\* and creates or changes no product record, whatever records precede the
\* bad one.
C21_InvalidBatchRejected ==
    [][(Served("ProductPush") /\ Refused(last'.body))
          => (/\ last'.status = 400
              /\ product' = product
              /\ UNCHANGED <<sale, items, decs, incs>>)]_vars

\* a batch of a valid record followed by a bad one for another product has
\* just been refused, and the product of the valid record has kept values
\* that differ from the pushed ones
C21_Witness ==
    /\ last.op = "ProductPush" /\ last.status = 400
    /\ Len(last.body) = 2
    /\ last.body[1].stock >= 0 /\ last.body[1].price > 0
    /\ last.body[2].stock < 0 \/ last.body[2].price <= 0
    /\ last.body[1].id # last.body[2].id
    /\ LET k == <<BusinessOf(last.actor), last.body[1].id>> IN
       /\ product[k].exists
       /\ product[k].price # last.body[1].price

\* the row holds the name, price, stock and active of the record
HoldsValues(row, rec) ==
    /\ row.exists
    /\ row.name = rec.name /\ row.price = rec.price
    /\ row.stock = rec.stock /\ row.active = rec.active

\* C28: an accepted product push leaves, for each of its records, the row
\* keyed by (business, local_id) with the record's name, price, stock and
\* active, whatever the row's updated_at and stock were before, and with
\* the record's updated_at as the stored updated_at.
C28_LastWriteWins ==
    [][(Served("ProductPush") /\ last'.status = 201) =>
           \A i \in 1..Len(last'.body) :
               LET k == <<BusinessOf(last'.actor), last'.body[i].id>> IN
               /\ k \in ProductKeys
               /\ HoldsValues(product'[k], last'.body[i])
               /\ product'[k].updated_at = last'.body[i].updated_at]_vars

\* the local ids the products of business b have
IdsOf(b) == {l \in AllIds : product[<<b, l>>].exists}

\* the largest of them plus one, 1 when there is none
NextIdOf(b) ==
    CHOOSE n \in 1..(MaxLocalId + 1) :
        /\ \A l \in IdsOf(b) : l < n
        /\ n = 1 \/ (n - 1) \in IdsOf(b)

\* C29: a product saved without local id is given the largest local id of
\* the products of its own business plus one, 1 when the business has
\* none, whatever the other business holds; its row is inserted under that
\* id only if no row of the business has it, and otherwise the save fails
\* and writes nothing, so that no existing row is replaced and of two
\* concurrent saves that were given the same id one fails.
C29_LocalIdAssignment ==
    [][\A s \in Slots :
           /\ (req[s].pc = "idle" /\ req'[s].op = "ProductSave")
                 => req'[s].lid = NextIdOf(BusinessOf(req'[s].actor))
           /\ (req[s].op = "ProductSave" /\ req[s].pc = "insert" /\ req'[s].pc = "done")
                 => LET k == <<BusinessOf(req[s].actor), req[s].lid>> IN
                    /\ \A j \in ProductKeys : product[j].exists => product'[j] = product[j]
                    /\ \A j \in ProductKeys \ {k} : product'[j] = product[j]
                    /\ IF product[k].exists
                       THEN req'[s].status = 500 /\ product' = product
                       ELSE req'[s].status = 201 /\ product'[k].exists]_vars

\* business 2 had no product; two saves without local id read its last
\* product at the same time and were both given 1, one was stored and the
\* other failed, while business 1 holds products 1 and 2
C29_Witness ==
    /\ req[1].op = "ProductSave" /\ req[2].op = "ProductSave"
    /\ BusinessOf(req[1].actor) = 2 /\ BusinessOf(req[2].actor) = 2
    /\ req[1].lid = 1 /\ req[2].lid = 1
    /\ req[1].pc = "done" /\ req[2].pc = "done"
    /\ {req[1].status, req[2].status} = {201, 500}
    /\ IdsOf(2) = {1}
    /\ IdsOf(1) = {1, 2}

\* C22: no sale item is ever created for a product that is inactive at the
\* moment the item is created, also when a product is soft-deleted while
\* the sale push is being served.
C22_NoItemForInactiveProduct ==
    [][\A u \in Uuids :
           Len(items'[u]) > Len(items[u]) =>
               \A i \in (Len(items[u]) + 1)..Len(items'[u]) :
                   product[<<sale'[u].business, items'[u][i].product>>].active]_vars

\* C23: the bulk update of a RejectAll deactivates exactly the sales of
\* the admin's business that are active and pending, changes no product,
\* and the uuids the response names (rejected_count of them) are exactly
\* the sales it deactivated, also when a sale push of the business is
\* served between the read of the list and the update.
C23_RejectAllReportsRejected ==
    [][\A s \in Slots :
           (req[s].op = "RejectAll" /\ req[s].pc = "update" /\ req'[s].pc = "done") =>
               LET hit == {u \in Uuids : sale'[u] # sale[u]} IN
               /\ hit = PendingOf(DB, BusinessOf(req[s].actor))
               /\ \A u \in hit : sale'[u] = [sale[u] EXCEPT !.active = FALSE]
               /\ product' = product
               /\ hit = {req'[s].L[j] : j \in 1..Len(req'[s].L)}]_vars

\* two pushes of the same uuid with the same line: the push in slot s is
\* the one that created the sale, the push in slot t has ended
Raced(s, t) ==
    /\ s # t
    /\ req[s].op = "SalePush" /\ req[t].op = "SalePush"
    /\ req[s].L = req[t].L /\ req[s].data = req[t].data
    /\ req[s].i >= 1
    /\ req[t].pc = "done"

AdminOps == {"Approve", "ApproveAll", "Reject", "RejectAll", "Reactivate"}

\* C25: an Approve, ApproveAll, Reject, RejectAll or Reactivate sent by a
\* worker is refused with 403 and changes no sale and no product.
C25_AdminOnly ==
    [][(/\ nops' = nops + 1
        /\ last'.op \in AdminOps
        /\ RoleOf(last'.actor) = "worker")
          => (/\ last'.status = 403
              /\ UNCHANGED <<product, sale, items, decs, incs>>)]_vars

\* a worker has just been refused the approval of a sale that is pending
\* and active in the worker's business and whose items are all in stock
C25_Witness ==
    /\ last.op = "Approve" /\ last.actor = "w1" /\ last.status = 403
    /\ LET u == last.uuids[1] IN
       /\ sale[u].exists /\ sale[u].business = BusinessOf("w1")
       /\ sale[u].pending_approval /\ sale[u].active
       /\ Len(items[u]) > 0
       /\ \A i \in 1..Len(items[u]) :
              product[<<1, items[u][i].product>>].stock >= items[u][i].quantity

\* C30: an admin's Approve of a pending, active sale of the admin's
\* business whose items are all covered by the stock answers 200, sets
\* pending_approval=false and leaves active=true, subtracts each item's
\* quantity from its product's stock, and changes no other product, no
\* other sale and no item.
C30_ApproveSubtractsExactly ==
    [][\A u \in Uuids :
           (/\ Served("Approve") /\ last'.uuids = <<u>>
            /\ RoleOf(last'.actor) = "admin"
            /\ sale[u].exists /\ sale[u].business = BusinessOf(last'.actor)
            /\ sale[u].pending_approval /\ sale[u].active
            /\ \A i \in 1..Len(items[u]) :
                   product[<<sale[u].business, items[u][i].product>>].stock
                       >= items[u][i].quantity)
              => /\ last'.status = 200
                 /\ sale' = [sale EXCEPT ![u].pending_approval = FALSE]
                 /\ sale'[u].active
                 /\ \A k \in ProductKeys :
                        IF k[1] = sale[u].business /\ Qty(u, k[2]) > 0
                        THEN Columns(product'[k]) =
                                 Columns([product[k] EXCEPT !.stock = @ - Qty(u, k[2])])
                        ELSE product'[k] = product[k]
                 /\ items' = items]_vars

\* a worker's sale of two lines of two units has just been approved, after
\* a product push had raised the stock of a product to cover it
C30_Witness ==
    /\ last.op = "Approve" /\ last.status = 200
    /\ LET u == last.uuids[1] IN
       /\ ~sale[u].pending_approval /\ sale[u].active
       /\ sale[u].created_by = "w1"
       /\ Len(items[u]) = 2
       /\ \A i \in 1..2 : items[u][i].quantity = 2 /\ decs[u][items[u][i].product] = 1
       /\ product[<<1, 1>>].stock = 0 /\ product[<<1, 2>>].stock = 0

\* the sum of f over the set S
RECURSIVE SumFn(_, _)
SumFn(f, S) ==
    IF S = {} THEN 0
    ELSE LET x == CHOOSE y \in S : TRUE IN f[x] + SumFn(f, S \ {x})

\* the sum of a column over the lines of sale u that name product l
LineSum(u, l, column) ==
    SumFn([i \in 1..Len(items[u]) |->
               IF items[u][i].product = l THEN items[u][i][column] ELSE 0],
          1..Len(items[u]))

\* the sales the aggregation has to count for business b
Counted(b) ==
    {u \in Uuids : /\ sale[u].exists
                   /\ sale[u].business = b
                   /\ sale[u].active
                   /\ sale[u].pending_approval}

C27_ListingScope ==
    [][Served("SaleList") =>
          LET a == last'.actor
              L == last'.body
              Shown(u) == \E i \in 1..Len(L) : L[i] = u
          IN /\ UNCHANGED <<product, sale, items, decs, incs>>
             /\ last'.status = 200
             /\ \A i \in 1..Len(L) : \A j \in 1..Len(L) : L[i] = L[j] => i = j
             /\ \A u \in Uuids :
                    Shown(u) <=>
                        /\ sale[u].exists
                        /\ sale[u].business = BusinessOf(a)
                        /\ ~sale[u].pending_approval
                        /\ (RoleOf(a) = "worker" => sale[u].created_by = a)
                        /\ (~sale[u].active => IsAdmin(a) /\ last'.flag)]_vars

\* a worker who passes include_inactive is shown the one sale that worker
\* created, and not the approved sale the admin created
C27_Witness ==
    /\ last.op = "SaleList"
    /\ RoleOf(last.actor) = "worker"
    /\ last.flag
    /\ Len(last.body) = 1
    /\ sale[last.body[1]].created_by = last.actor
    /\ \E v \in Uuids :
           /\ sale[v].exists
           /\ sale[v].business = BusinessOf(last.actor)
           /\ ~sale[v].pending_approval
           /\ sale[v].created_by # last.actor

\* the quantity the sales of S ask of product l of business b, all together
Asked(S, l) == SumFn([u \in Uuids |-> LineSum(u, l, "quantity")], S)

ApprovedActive(b) ==
    {u \in Uuids : /\ sale[u].exists
                   /\ sale[u].business = b
                   /\ ~sale[u].pending_approval
                   /\ sale[u].active}

\* C32: as long as no request writes a product directly, the stock of every
\* product is its initial stock less the quantities of the items for it of
\* the sales that are approved and active.
C32_StockConservation ==
    \A k \in InitKeys :
        product[k].stock = InitStock[k] - Asked(ApprovedActive(k[1]), k[2])

\* C33: no partial sale is kept.  No sale has two items for one product, and
\* a sale push that fails leaves the sales and the sale items as they were:
\* neither the row of the failing record nor any of its items is stored.
C33_NoPartialSale ==
    [][Served("SalePush") =>
          /\ \A u \in Uuids : \A i \in 1..Len(items'[u]) : \A j \in 1..Len(items'[u]) :
                 items'[u][i].product = items'[u][j].product => i = j
          /\ last'.status # 201 => sale' = sale /\ items' = items]_vars

====
